---- MODULE Spec2Model ----
(***************************************************************************)
(* Model of src/Midterm/server.js: an Express application with six         *)
(* handlers over one Mongoose model, Post.                                 *)
(*                                                                         *)
(* Conventions.                                                            *)
(*   - A value that may be missing is a sequence of length 0 or 1:         *)
(*     None is undefined (or null, where the text says so), Some(v) is v.  *)
(*   - title, content, the search text q and the limit text are sequences  *)
(*     of one-character strings, so that trim, length, substring search    *)
(*     and parseInt are computed; author, tags, comment text and user are   *)
(*     only compared, and are TLA+ strings.                                *)
(*   - The document store is the collection posts, in insertion order.     *)
(*     Each store call is one atomic step, and may fail (fail = TRUE)      *)
(*     without effect: the promise the handler awaits is then rejected.    *)
(*   - resp is the HTTP response sent by the step that led to the current  *)
(*     state (op = "none" when that step sent none).                       *)
(*                                                                         *)
(* Scope. Request values are text, booleans, numbers and null for likes;   *)
(* values that Mongoose cannot cast, a null comments array, a search text  *)
(* with regular-expression metacharacters and a client-chosen createdAt    *)
(* are not among the inputs.                                               *)
(***************************************************************************)
EXTENDS Integers, Sequences, FiniteSets, TLC

VARIABLES
    posts,    \* the collection of Post documents, in insertion order
    likes0,   \* likes0[i]: the likes posts[i] was inserted with (history)
    clock,    \* Date.now()
    reqs,     \* the Like and Comment requests received, in order of arrival
    resp      \* the response sent by the last step

vars == <<posts, likes0, clock, reqs, resp>>

None == <<>>
Some(v) == <<v>>

(***************************************************************************)
(* Bounds of the model and constants of the program.                       *)
(***************************************************************************)
MaxPosts == 1
MaxReqs == 2
MaxListPosts == 2
MaxAggPosts == 6
MaxCreatePosts == 2

MaxTitleLen == 100
DefaultLimit == 10
SearchLimit == 5

(***************************************************************************)
(* Text helpers.                                                           *)
(***************************************************************************)
Range(s) == {s[i] : i \in 1..Len(s)}

Rep(c, n) == [i \in 1..n |-> c]

IsSpace(c) == c = " "

RECURSIVE TrimLeft(_)
TrimLeft(s) == IF s # <<>> /\ IsSpace(Head(s)) THEN TrimLeft(Tail(s)) ELSE s

RECURSIVE TrimRight(_)
TrimRight(s) ==
    IF s # <<>> /\ IsSpace(s[Len(s)]) THEN TrimRight(SubSeq(s, 1, Len(s) - 1)) ELSE s

\* String.prototype.trim, applied by the schema's trim: true setter
Trim(s) == TrimRight(TrimLeft(s))

Lower(c) == IF c = "A" THEN "a" ELSE IF c = "B" THEN "b" ELSE c

\* { $regex: q, $options: 'i' } for a q without metacharacters:
\* s contains q, letter case ignored
RegexMatchI(s, q) ==
    \E i \in 0..(Len(s) - Len(q)) :
        \A j \in 1..Len(q) : Lower(s[i + j]) = Lower(q[j])

Digits == <<"0", "1", "2", "3", "4", "5", "6", "7", "8", "9">>
IsDigit(c) == \E i \in 1..10 : Digits[i] = c
DigitVal(c) == (CHOOSE i \in 1..10 : Digits[i] = c) - 1

RECURSIVE DigitPrefix(_, _)
\* value of the longest prefix of digits of s, acc being that of the digits read
DigitPrefix(s, acc) ==
    IF s # <<>> /\ IsDigit(Head(s))
    THEN DigitPrefix(Tail(s), 10 * acc + DigitVal(Head(s)))
    ELSE acc

\* parseInt(text): leading blanks skipped, an optional sign, then the longest
\* run of digits; None is NaN
ParseInt(text) ==
    LET s == TrimLeft(text)
        neg == s # <<>> /\ Head(s) = "-"
        t == IF s # <<>> /\ Head(s) \in {"-", "+"} THEN Tail(s) ELSE s
    IN  IF t = <<>> \/ ~IsDigit(Head(t)) THEN None
        ELSE Some(IF neg THEN 0 - DigitPrefix(t, 0) ELSE DigitPrefix(t, 0))

(***************************************************************************)
(* postSchema and the Post model.                                          *)
(***************************************************************************)
PostIds(ps) == {ps[i].id : i \in 1..Len(ps)}

\* the ObjectId a new document is given: one no stored document has
FreshId(ps) == CHOOSE n \in 1..(Len(ps) + 1) : n \notin PostIds(ps)

\* the likes default
DefaultLikes == Some(0)

\* a subdocument of comments: text and user as given, date defaulting to now;
\* cid is the subdocument's id
NewComment(c, cid, now) == [cid |-> cid, text |-> c.text, user |-> c.user, date |-> now]

\* new Post(req.body): the body's fields cast, the title trimmed, and the
\* schema's defaults for the fields the body leaves undefined (a null likes
\* stays null: a default replaces undefined only)
NewPost(body, ps, now) ==
    [id        |-> IF body.id = None THEN FreshId(ps) ELSE body.id[1],
     title     |-> IF body.title = None THEN None ELSE Some(Trim(body.title[1])),
     content   |-> body.content,
     author    |-> body.author,
     tags      |-> IF body.tags = None THEN <<>> ELSE body.tags[1],
     likes     |-> IF body.likes = None THEN DefaultLikes ELSE body.likes[1],
     comments  |-> IF body.comments = None THEN <<>>
                   ELSE [i \in 1..Len(body.comments[1]) |->
                            NewComment(body.comments[1][i], 0, now)],
     published |-> IF body.published = None THEN FALSE ELSE body.published[1],
     createdAt |-> now]

RequiredPresent(f) == f # None

\* required: true on a String path: present and of length > 0
Required(f) == f # None /\ Len(f[1]) > 0

RequiredStr(f) == f # None /\ f[1] # ""

\* maxlength: 100 on title
MaxLengthOk(f) == f = None \/ Len(f[1]) <= MaxTitleLen

\* the validation post.save() runs before the insert
Validate(doc) ==
    /\ Required(doc.title)
    /\ MaxLengthOk(doc.title)
    /\ Required(doc.content)
    /\ RequiredStr(doc.author)

\* the document as the collection holds it
Stored(doc) ==
    [doc EXCEPT !.title = doc.title[1], !.content = doc.content[1],
                !.author = doc.author[1]]

NoResp == [op |-> "none"]

(***************************************************************************)
(* POST /api/posts                                                         *)
(***************************************************************************)
CreateStatusOnError == 400

Create(body, fail, tick) ==
    LET doc == NewPost(body, posts, clock)
        err == IF ~Validate(doc) THEN "ValidationError"
               ELSE IF fail THEN "StoreError"
               ELSE IF doc.id \in PostIds(posts) THEN "DuplicateKey"
               ELSE "none"
    IN  /\ IF err = "none"
           THEN /\ posts' = Append(posts, Stored(doc))
                /\ likes0' = Append(likes0, doc.likes)
                /\ clock' = IF tick THEN clock + 1 ELSE clock
                /\ resp' = [op |-> "create", body |-> body, status |-> 201,
                            storeFailed |-> FALSE, error |-> "none",
                            data |-> Some(Stored(doc))]
           ELSE /\ UNCHANGED <<posts, likes0, clock>>
                /\ resp' = [op |-> "create", body |-> body,
                            status |-> CreateStatusOnError,
                            storeFailed |-> (err = "StoreError"), error |-> err,
                            data |-> None]
        /\ UNCHANGED reqs

(***************************************************************************)
(* Query helpers of the store.                                             *)
(***************************************************************************)
RECURSIVE Reverse(_)
Reverse(s) == IF s = <<>> THEN <<>> ELSE Append(Reverse(Tail(s)), Head(s))

RECURSIVE SelectPosts(_, _, _)
\* the posts of ps that match the filter {tags: tagF, published: pubF}, a None
\* constraint being absent from the filter
SelectPosts(ps, tagF, pubF) ==
    IF ps = <<>> THEN <<>>
    ELSE LET p == Head(ps)
             ok == /\ (tagF = None \/ tagF[1] \in Range(p.tags))
                   /\ (pubF = None \/ p.published = pubF[1])
         IN  (IF ok THEN <<p>> ELSE <<>>) \o SelectPosts(Tail(ps), tagF, pubF)

RECURSIVE InsertNewest(_, _)
InsertNewest(x, s) ==
    IF s = <<>> THEN <<x>>
    ELSE IF x.createdAt > Head(s).createdAt THEN <<x>> \o s
    ELSE <<Head(s)>> \o InsertNewest(x, Tail(s))

RECURSIVE SortNewestFirst(_)
\* sort({ createdAt: -1 })
SortNewestFirst(ps) ==
    IF ps = <<>> THEN <<>>
    ELSE InsertNewest(ps[Len(ps)], SortNewestFirst(SubSeq(ps, 1, Len(ps) - 1)))

\* cursor limit n: 0 is no limit, a negative n is a limit of -n
Limit(s, n) ==
    LET m == IF n < 0 THEN 0 - n ELSE n
    IN  IF m = 0 \/ m >= Len(s) THEN s ELSE SubSeq(s, 1, m)

(***************************************************************************)
(* GET /api/posts                                                          *)
(***************************************************************************)
\* const { limit = 10 } = req.query; parseInt(limit)
ParsedLimit(query) ==
    IF query.limit = None THEN Some(DefaultLimit) ELSE ParseInt(query.limit[1])

\* if (tag) query.tags = tag
TagFilter(query) ==
    IF query.tag # None /\ query.tag[1] # "" THEN query.tag ELSE None

\* if (published !== undefined) query.published = published === 'true'
PublishedFilter(query) ==
    IF query.published # None THEN Some(query.published[1] = "true") ELSE None

\* The order of documents with equal sort keys is the store's: rev picks one
\* of two. A limit of NaN is not an integer: the find is either refused
\* (nanErr) or runs without a limit, by the version of the driver and store.
\* limit in the response record is the argument .limit() was given.
List(query, rev, nanErr, fail) ==
    LET lim == ParsedLimit(query)
        found == SortNewestFirst(
                    SelectPosts(IF rev THEN Reverse(posts) ELSE posts,
                                TagFilter(query), PublishedFilter(query)))
        err == IF fail THEN "StoreError"
               ELSE IF lim = None /\ nanErr THEN "LimitError"
               ELSE "none"
        data == IF lim = None THEN found ELSE Limit(found, lim[1])
    IN  /\ resp' = IF err = "none"
                   THEN [op |-> "list", query |-> query, status |-> 200,
                         storeFailed |-> FALSE, error |-> "none",
                         limit |-> lim, count |-> Len(data), data |-> data]
                   ELSE [op |-> "list", query |-> query, status |-> 500,
                         storeFailed |-> (err = "StoreError"), error |-> err,
                         limit |-> lim, count |-> 0, data |-> <<>>]
        /\ UNCHANGED <<posts, likes0, clock, reqs>>

(***************************************************************************)
(* GET /api/posts/search                                                   *)
(***************************************************************************)
\* { $add: ["$likes", { $size: "$comments" }] }: null when likes is null
Engagement(p) ==
    IF p.likes = None THEN None ELSE Some(p.likes[1] + Len(p.comments))

AddEngagement(p) ==
    [f \in DOMAIN p \cup {"engagement"} |->
        IF f = "engagement" THEN Engagement(p) ELSE p[f]]

Below(a, b) == b # None /\ (a = None \/ a[1] < b[1])

\* the store's order of values: null sorts below every number
Above(a, b) == a # None /\ (b = None \/ a[1] > b[1])

RECURSIVE MatchPosts(_, _)
\* $match: { $or: [ {title: {$regex: q, $options: 'i'}}, {content: ...} ] }
MatchPosts(ps, q) ==
    IF ps = <<>> THEN <<>>
    ELSE (IF RegexMatchI(Head(ps).title, q) \/ RegexMatchI(Head(ps).content, q)
          THEN <<Head(ps)>> ELSE <<>>) \o MatchPosts(Tail(ps), q)

RECURSIVE InsertEngaged(_, _)
InsertEngaged(x, s) ==
    IF s = <<>> THEN <<x>>
    ELSE IF Above(x.engagement, Head(s).engagement) THEN <<x>> \o s
    ELSE <<Head(s)>> \o InsertEngaged(x, Tail(s))

RECURSIVE SortByEngagement(_)
\* $sort: { engagement: -1 }
SortByEngagement(ps) ==
    IF ps = <<>> THEN <<>>
    ELSE InsertEngaged(ps[Len(ps)], SortByEngagement(SubSeq(ps, 1, Len(ps) - 1)))

\* the four stages of the search pipeline
SearchPipeline(ps, q) ==
    LET matched == MatchPosts(ps, q)
        scored == [i \in 1..Len(matched) |-> AddEngagement(matched[i])]
    IN  Limit(SortByEngagement(scored), SearchLimit)

Search(q, rev, fail) ==
    LET results == SearchPipeline(IF rev THEN Reverse(posts) ELSE posts, q)
    IN  /\ resp' = IF ~fail
                   THEN [op |-> "search", query |-> q, status |-> 200,
                         storeFailed |-> FALSE, error |-> "none",
                         count |-> Len(results), data |-> results]
                   ELSE [op |-> "search", query |-> q, status |-> 500,
                         storeFailed |-> TRUE, error |-> "StoreError",
                         count |-> 0, data |-> <<>>]
        /\ UNCHANGED <<posts, likes0, clock, reqs>>

(***************************************************************************)
(* GET /api/posts/stats                                                    *)
(***************************************************************************)
RECURSIVE SumLikes(_)
\* { $sum: "$likes" }: a likes that is no number adds nothing
SumLikes(ps) ==
    IF ps = <<>> THEN 0
    ELSE (IF Head(ps).likes = None THEN 0 ELSE Head(ps).likes[1]) + SumLikes(Tail(ps))

RECURSIVE CountNumericLikes(_)
CountNumericLikes(ps) ==
    IF ps = <<>> THEN 0
    ELSE (IF Head(ps).likes = None THEN 0 ELSE 1) + CountNumericLikes(Tail(ps))

\* { $avg: "$likes" }: the mean of the likes that are numbers, as the fraction
\* [num / den]; null (None) when there is none
AvgLikes(ps) ==
    IF CountNumericLikes(ps) = 0 THEN None
    ELSE Some([num |-> SumLikes(ps), den |-> CountNumericLikes(ps)])

RECURSIVE CountPublished(_)
\* { $sum: { $cond: ["$published", 1, 0] } }
CountPublished(ps) ==
    IF ps = <<>> THEN 0
    ELSE (IF Head(ps).published THEN 1 ELSE 0) + CountPublished(Tail(ps))

\* $group with _id: null: one record, and none for an empty collection
StatsPipeline(ps) ==
    IF ps = <<>> THEN <<>>
    ELSE << [totalPosts |-> Len(ps), totalLikes |-> SumLikes(ps),
             avgLikes |-> AvgLikes(ps), publishedCount |-> CountPublished(ps)] >>

\* data: stats[0] || {} -- emptyObject tells {} from a record
Stats(fail) ==
    LET stats == StatsPipeline(posts)
    IN  /\ resp' = IF ~fail
                   THEN [op |-> "stats", status |-> 200, storeFailed |-> FALSE,
                         error |-> "none", emptyObject |-> (stats = <<>>),
                         data |-> stats]
                   ELSE [op |-> "stats", status |-> 500, storeFailed |-> TRUE,
                         error |-> "StoreError", emptyObject |-> FALSE,
                         data |-> <<>>]
        /\ UNCHANGED <<posts, likes0, clock, reqs>>

(***************************************************************************)
(* PATCH /api/posts/:id/like and POST /api/posts/:id/comments              *)
(*                                                                         *)
(* A request is a record of reqs, its index being its number rid. The      *)
(* handler sends its findByIdAndUpdate as the request arrives (LikeStart,  *)
(* CommentStart) and is suspended at the await; steps of other requests    *)
(* may come before the store applies the update. The store applies it in   *)
(* one atomic step and the handler resumes with the result and answers     *)
(* (Like, Comment): the code after the await reads nothing but the result. *)
(***************************************************************************)
\* a path segment that is no ObjectId (such as "abc")
BadId == 0

IsObjectId(pid) == pid # BadId

PostIndex(ps, pid) == CHOOSE i \in 1..Len(ps) : ps[i].id = pid

NewRequest(op, pid, body) ==
    [op |-> op, pid |-> pid, body |-> body, phase |-> "sent", status |-> 0]

IncLikesLost(l) == l

\* { $inc: { likes: 1 } }
IncLikes(l) == Some(l[1] + 1)

PushCommentFirst(cs, c) == <<c>> \o cs

\* { $push: { comments: c } }
PushComment(cs, c) == Append(cs, c)

LikeStart(pid) ==
    /\ Len(reqs) < MaxReqs
    /\ reqs' = Append(reqs, NewRequest("like", pid, None))
    /\ resp' = NoResp
    /\ UNCHANGED <<posts, likes0, clock>>

\* Post.findByIdAndUpdate(req.params.id, { $inc: { likes: 1 } }, { new: true }):
\* the document after the update, null when no document has the id; rejected
\* when the id is no ObjectId, when the store fails, or when likes is null
LikeUpdate(ps, pid, fail) ==
    IF ~IsObjectId(pid) THEN [error |-> "CastError", found |-> FALSE, posts |-> ps]
    ELSE IF fail THEN [error |-> "StoreError", found |-> FALSE, posts |-> ps]
    ELSE IF pid \notin PostIds(ps) THEN [error |-> "none", found |-> FALSE, posts |-> ps]
    ELSE IF ps[PostIndex(ps, pid)].likes = None
    THEN [error |-> "IncError", found |-> FALSE, posts |-> ps]
    ELSE [error |-> "none", found |-> TRUE,
          posts |-> [ps EXCEPT ![PostIndex(ps, pid)].likes = IncLikes(@)]]

LikeNotFoundStatus == 404

\* if (!post) 404; else { likes: post.likes }; the catch answers 500
Like(r, fail) ==
    /\ reqs[r].op = "like" /\ reqs[r].phase = "sent"
    /\ LET pid == reqs[r].pid
           res == LikeUpdate(posts, pid, fail)
           st == IF res.error # "none" THEN 500
                 ELSE IF ~res.found THEN LikeNotFoundStatus
                 ELSE 200
       IN  /\ posts' = res.posts
           /\ reqs' = [reqs EXCEPT ![r].phase = "done", ![r].status = st]
           /\ resp' = [op |-> "like", rid |-> r, pid |-> pid, status |-> st,
                       storeFailed |-> (res.error = "StoreError"), error |-> res.error,
                       data |-> IF st = 200
                                THEN res.posts[PostIndex(res.posts, pid)].likes
                                ELSE None]
    /\ UNCHANGED <<likes0, clock>>

CommentStart(pid, body) ==
    /\ Len(reqs) < MaxReqs
    /\ reqs' = Append(reqs, NewRequest("comment", pid, Some(body)))
    /\ resp' = NoResp
    /\ UNCHANGED <<posts, likes0, clock>>

\* Post.findByIdAndUpdate(req.params.id, { $push: { comments: { text, user } } },
\*                        { new: true })
CommentUpdate(ps, pid, c, fail) ==
    IF ~IsObjectId(pid) THEN [error |-> "CastError", found |-> FALSE, posts |-> ps]
    ELSE IF fail THEN [error |-> "StoreError", found |-> FALSE, posts |-> ps]
    ELSE IF pid \notin PostIds(ps) THEN [error |-> "none", found |-> FALSE, posts |-> ps]
    ELSE [error |-> "none", found |-> TRUE,
          posts |-> [ps EXCEPT ![PostIndex(ps, pid)].comments = PushComment(@, c)]]

\* data: post.comments[post.comments.length - 1]; post.comments of a null
\* post throws a TypeError, which the catch answers with 500 like the rest
Comment(r, fail) ==
    /\ reqs[r].op = "comment" /\ reqs[r].phase = "sent"
    /\ LET pid == reqs[r].pid
           res == CommentUpdate(posts, pid, NewComment(reqs[r].body[1], r, clock), fail)
           err == IF res.error = "none" /\ ~res.found THEN "TypeError" ELSE res.error
           st == IF err # "none" THEN 500 ELSE 200
           cs == IF st = 200 THEN res.posts[PostIndex(res.posts, pid)].comments
                 ELSE <<>>
       IN  /\ posts' = res.posts
           /\ reqs' = [reqs EXCEPT ![r].phase = "done", ![r].status = st]
           /\ resp' = [op |-> "comment", rid |-> r, pid |-> pid, status |-> st,
                       storeFailed |-> (err = "StoreError"), error |-> err,
                       data |-> IF st = 200 THEN Some(cs[Len(cs)]) ELSE None]
    /\ UNCHANGED <<likes0, clock>>

(***************************************************************************)
(* Requests.                                                               *)
(***************************************************************************)
EmptyBody ==
    [id |-> None, title |-> None, content |-> None, author |-> None,
     tags |-> None, likes |-> None, comments |-> None, published |-> None]

\* the three required fields and nothing else
MinimalBody ==
    [EmptyBody EXCEPT !.title = Some(<<"a">>), !.content = Some(<<"b">>),
                      !.author = Some("u")]

NullLikes == None

MainBodies ==
    {MinimalBody,
     [MinimalBody EXCEPT !.likes = Some(NullLikes)],
     [MinimalBody EXCEPT !.likes = Some(Some(0 - 1))]}

PathIds == {BadId, 1, 2}

CommentBodies == {[text |-> Some("a"), user |-> Some("u")],
                  [text |-> Some("b"), user |-> Some("u")]}

NoQuery == [tag |-> None, published |-> None, limit |-> None]

(***************************************************************************)
(* Spec: the service, its six handlers, with requests in flight together.  *)
(***************************************************************************)
Init ==
    /\ posts = <<>>
    /\ likes0 = <<>>
    /\ clock = 0
    /\ reqs = <<>>
    /\ resp = NoResp

CreatePost ==
    \E body \in MainBodies, fail \in BOOLEAN :
        Len(posts) < MaxPosts /\ Create(body, fail, TRUE)

LikeArrives == \E pid \in PathIds : LikeStart(pid)

LikeApplied == \E r \in 1..Len(reqs), fail \in BOOLEAN : Like(r, fail)

CommentArrives == \E pid \in PathIds, body \in CommentBodies : CommentStart(pid, body)

CommentApplied == \E r \in 1..Len(reqs), fail \in BOOLEAN : Comment(r, fail)

ListPosts == \E fail \in BOOLEAN : List(NoQuery, FALSE, FALSE, fail)

SearchPosts == \E fail \in BOOLEAN : Search(<<"a">>, FALSE, fail)

PostStats == \E fail \in BOOLEAN : Stats(fail)

Next ==
    \/ CreatePost
    \/ ListPosts
    \/ LikeArrives
    \/ LikeApplied
    \/ CommentArrives
    \/ CommentApplied
    \/ SearchPosts
    \/ PostStats

Spec == Init /\ [][Next]_vars

(***************************************************************************)
(* SpecWrites: the three handlers that write to the collection. The other  *)
(* three change resp alone.                                                *)
(***************************************************************************)
NextWrites ==
    \/ CreatePost
    \/ LikeArrives
    \/ LikeApplied
    \/ CommentArrives
    \/ CommentApplied

SpecWrites == Init /\ [][NextWrites]_vars

(***************************************************************************)
(* Properties of Spec and SpecWrites.                                      *)
(***************************************************************************)
\* the Like requests on post pid answered with 200
LikesAnswered(pid) ==
    {r \in 1..Len(reqs) : /\ reqs[r].op = "like" /\ reqs[r].pid = pid
                          /\ reqs[r].phase = "done" /\ reqs[r].status = 200}

\* C1: a post created with likes n has likes n + k when k Like requests on it
\* have been answered with 200, however the requests of the service interleave;
\* and the answer of a Like carries the likes that its own increment produced.
C1_NoLostLike ==
    /\ \A i \in 1..Len(posts) :
          posts[i].likes =
              IF likes0[i] = None THEN None
              ELSE Some(likes0[i][1] + Cardinality(LikesAnswered(posts[i].id)))
    /\ (resp.op = "like" /\ resp.status = 200) =>
          /\ resp.pid \in PostIds(posts)
          /\ resp.data = posts[PostIndex(posts, resp.pid)].likes

\* two Like requests on one post, both answered with 200, the one that
\* arrived first answered last: they were in flight together
C1_Witness ==
    /\ resp.op = "like" /\ resp.status = 200
    /\ \E r \in LikesAnswered(resp.pid) : r > resp.rid

\* C2: a Like on an id that is no stored post's (the store working) is
\* answered with 404 and leaves the collection as it was.
C2_LikeUnknownIdIs404 ==
    [][(resp'.op = "like" /\ ~resp'.storeFailed /\ resp'.pid \notin PostIds(posts))
          => (resp'.status = 404 /\ posts' = posts)]_vars

\* C5: a failure of the store call is answered with 500 and the error's text,
\* and 400 answers nothing but a validation failure of a post body.
C5_StoreFailureIs500 ==
    /\ (resp.op # "none" /\ resp.storeFailed) =>
          (resp.status = 500 /\ resp.error = "StoreError")
    /\ (resp.op # "none" /\ resp.status = 400) =>
          (resp.op = "create" /\ resp.error = "ValidationError")

Pos(cs, cid) == CHOOSE k \in 1..Len(cs) : cs[k].cid = cid

IsPrefix(s, t) == Len(s) <= Len(t) /\ SubSeq(t, 1, Len(s)) = s

\* the Comment requests on post pid that this step answers with 200
CommentsAnsweredNow(pid) ==
    {r \in 1..Len(reqs) : /\ reqs[r].op = "comment" /\ reqs[r].pid = pid
                          /\ reqs[r].phase = "sent" /\ reqs'[r].phase = "done"
                          /\ reqs'[r].status = 200}

CommentsAnswered(pid) ==
    {r \in 1..Len(reqs) : /\ reqs[r].op = "comment" /\ reqs[r].pid = pid
                          /\ reqs[r].phase = "done" /\ reqs[r].status = 200}

\* C6: in every step each post keeps its comments as a prefix of its new
\* comments; a Comment request answered on a stored post (the store working)
\* is answered with 200 and adds one entry, its own, at the end, and no other
\* step adds any; so the entry of a request answered earlier precedes it.
C6_CommentsAppendOnly ==
    [][/\ Len(posts') >= Len(posts)
       /\ \A i \in 1..Len(posts) :
            LET old == posts[i].comments
                new == posts'[i].comments
                now == CommentsAnsweredNow(posts[i].id)
            IN  /\ posts'[i].id = posts[i].id
                /\ IsPrefix(old, new)
                /\ Len(new) = Len(old) + Cardinality(now)
                /\ \A r \in now :
                      /\ new[Len(new)].cid = r
                      /\ new[Len(new)].text = reqs[r].body[1].text
                      /\ resp'.data = Some(new[Len(new)])
                      /\ \A r1 \in CommentsAnswered(posts[i].id) :
                            /\ \E k \in 1..Len(new) : new[k].cid = r1
                            /\ Pos(new, r1) < Pos(new, r)
       /\ \A r \in 1..Len(reqs) :
            (/\ reqs[r].op = "comment" /\ reqs[r].phase = "sent"
             /\ reqs'[r].phase = "done" /\ reqs[r].pid \in PostIds(posts)
             /\ ~resp'.storeFailed)
            => reqs'[r].status = 200
      ]_vars

\* two Comment requests on one post, both answered with 200, the one that
\* arrived first answered last: they were in flight together, and both
\* entries are in the post's comments
C6_Witness ==
    /\ resp.op = "comment" /\ resp.status = 200
    /\ \E r \in CommentsAnswered(resp.pid) :
          /\ r > resp.rid
          /\ LET cs == posts[PostIndex(posts, resp.pid)].comments
             IN  Pos(cs, r) < Pos(cs, resp.rid)

\* C10: every stored post's likes is an integer >= 0, is 0 when the post is
\* inserted, and never decreases.
C10_LikesNonNegativeMonotone ==
    [][\A i \in 1..Len(posts') :
          /\ posts'[i].likes # None
          /\ posts'[i].likes[1] >= 0
          /\ i > Len(posts) => posts'[i].likes = Some(0)
          /\ (i <= Len(posts) /\ posts[i].likes # None) =>
                posts'[i].likes[1] >= posts[i].likes[1]
      ]_vars

(***************************************************************************)
(* SpecCreate: POST /api/posts over bodies that exercise the schema.       *)
(***************************************************************************)
LongTitle == Rep("a", MaxTitleLen + 1)

FullTitle == Rep("a", MaxTitleLen)

Titles ==
    {None, Some(<<>>), Some(<<" ">>), Some(<<"a">>), Some(<<" ", "a", " ">>),
     Some(FullTitle), Some(FullTitle \o <<" ">>), Some(LongTitle)}

\* every combination of a missing, an empty and a given required field
RequiredFieldBodies ==
    {[EmptyBody EXCEPT !.title = t, !.content = c, !.author = a] :
        t \in {None, Some(<<>>), Some(<<"a">>)},
        c \in {None, Some(<<>>), Some(<<"b">>)},
        a \in {None, Some(""), Some("u")}}

\* the minimal body with one more field, or another title
CreateBodies ==
    RequiredFieldBodies
    \cup {[MinimalBody EXCEPT !.title = t] : t \in Titles}
    \cup {[MinimalBody EXCEPT !.content = Some(<<" ">>)]}
    \cup {[MinimalBody EXCEPT !.id = Some(i)] : i \in {1, 2}}
    \cup {[MinimalBody EXCEPT !.likes = Some(Some(2))],
          [MinimalBody EXCEPT !.published = Some(TRUE)],
          [MinimalBody EXCEPT !.tags = Some(<<"x">>)],
          [MinimalBody EXCEPT !.comments = Some(<<[text |-> Some("a"), user |-> Some("u")]>>)]}

CreateAny ==
    \E body \in CreateBodies, fail \in BOOLEAN :
        Create(body, fail, TRUE) /\ Len(posts') <= MaxCreatePosts

NextCreate == CreateAny

SpecCreate == Init /\ [][NextCreate]_vars

\* title, content or author is missing from the body, or empty (the title
\* once trimmed)
LacksRequired(body) ==
    \/ body.title = None \/ Trim(body.title[1]) = <<>>
    \/ body.content = None \/ body.content[1] = <<>>
    \/ body.author = None \/ body.author[1] = ""

\* the body gives none of tags, likes, comments, published
NoOptional(body) ==
    /\ body.tags = None /\ body.likes = None
    /\ body.comments = None /\ body.published = None

\* the step inserts one post, with a fresh id and the schema's defaults
InsertsDefaultPost ==
    /\ Len(posts') = Len(posts) + 1
    /\ SubSeq(posts', 1, Len(posts)) = posts
    /\ LET p == posts'[Len(posts')]
       IN  /\ p.id \notin PostIds(posts)
           /\ p.likes = Some(0)
           /\ p.published = FALSE
           /\ p.comments = <<>>
           /\ p.tags = <<>>
           /\ resp'.data = Some(p)

OnlyValidRequired(body) ==
    /\ ~LacksRequired(body)
    /\ Len(Trim(body.title[1])) <= MaxTitleLen
    /\ NoOptional(body)
    /\ body.id = None

ListBodies ==
    {[MinimalBody EXCEPT !.tags = t, !.published = pb] :
        t \in {None, Some(<<"x">>)}, pb \in {None, Some(TRUE)}}

TagParams == {None, Some(""), Some("x"), Some("y")}

PublishedParams == {None, Some("true"), Some("false"), Some("yes")}

LimitParams ==
    {None, Some(<<"1">>), Some(<<"2", "x">>), Some(<<"a">>), Some(<<>>),
     Some(<<"0">>), Some(<<"-", "1">>)}

ListQueries ==
    {[tag |-> t, published |-> pb, limit |-> None] :
        t \in TagParams, pb \in PublishedParams}
    \cup {[tag |-> None, published |-> None, limit |-> l] : l \in LimitParams}
    \cup {[tag |-> Some("x"), published |-> Some("true"), limit |-> Some(<<"1">>)]}

CreateListed ==
    \E body \in ListBodies, tick \in BOOLEAN :
        Len(posts) < MaxListPosts /\ Create(body, FALSE, tick)

ListAny ==
    \E query \in ListQueries, rev \in BOOLEAN, nanErr \in BOOLEAN, fail \in BOOLEAN :
        List(query, rev, nanErr, fail)

NextList == CreateListed \/ ListAny

SpecList == Init /\ [][NextList]_vars

\* C3: the limit List applies is the integer parsed from the limit parameter,
\* and 10 when the parameter is absent or parses as no integer; and no value
\* of the parameters makes List fail (the store working).
C3_LimitDefaultsTo10 ==
    resp.op = "list" =>
        /\ resp.limit =
              IF resp.query.limit = None \/ ParseInt(resp.query.limit[1]) = None
              THEN Some(10)
              ELSE ParseInt(resp.query.limit[1])
        /\ ~resp.storeFailed => resp.status = 200

\* the post satisfies the constraints the query supplies
Qualifies(p, query) ==
    /\ query.tag # None => query.tag[1] \in Range(p.tags)
    /\ query.published # None => p.published = (query.published[1] = "true")

\* C4: List returns exactly the stored posts that satisfy every supplied
\* constraint (a tag of any text, the empty text too; published compared with
\* "true"), newest first, cut to the limit, and count is their number.
C4_ListReturnsQualifying ==
    (resp.op = "list" /\ resp.status = 200) =>
        LET d == resp.data
            qual == {i \in 1..Len(posts) : Qualifies(posts[i], resp.query)}
            ids == {d[k].id : k \in 1..Len(d)}
            cut == IF resp.limit = None \/ resp.limit[1] = 0 THEN Len(posts)
                   ELSE IF resp.limit[1] < 0 THEN 0 - resp.limit[1]
                   ELSE resp.limit[1]
        IN  /\ resp.count = Len(d)
            /\ \A k \in 1..Len(d) : \E i \in qual : d[k] = posts[i]
            /\ Cardinality(ids) = Len(d)
            /\ Len(d) = IF Cardinality(qual) < cut THEN Cardinality(qual) ELSE cut
            /\ \A k \in 1..(Len(d) - 1) : d[k].createdAt >= d[k + 1].createdAt
            /\ \A i \in qual : posts[i].id \notin ids =>
                  \A k \in 1..Len(d) : d[k].createdAt >= posts[i].createdAt

(***************************************************************************)
(* SpecAgg: the two aggregations over posts that differ in title, content, *)
(* likes, comments and published.                                          *)
(***************************************************************************)
OneComment == Some(<<[text |-> Some("a"), user |-> Some("u")]>>)

AggBodies ==
    {[MinimalBody EXCEPT !.title = Some(<<"a">>), !.content = Some(<<"c">>)],
     [MinimalBody EXCEPT !.title = Some(<<"A", "b">>), !.content = Some(<<"c">>),
                         !.likes = Some(Some(5)), !.comments = OneComment,
                         !.published = Some(TRUE)],
     [MinimalBody EXCEPT !.title = Some(<<"c">>), !.content = Some(<<"c">>),
                         !.likes = Some(Some(2))],
     [MinimalBody EXCEPT !.title = Some(<<"c">>), !.content = Some(<<"b", "a">>),
                         !.likes = Some(NullLikes), !.comments = OneComment]}

SearchTexts == {<<"a">>, <<"a", "B">>}

CreateAggregated ==
    \E body \in AggBodies :
        Len(posts) < MaxAggPosts /\ Create(body, FALSE, TRUE)

SearchAny ==
    \E q \in SearchTexts, rev \in BOOLEAN, fail \in BOOLEAN : Search(q, rev, fail)

StatsAny == \E fail \in BOOLEAN : Stats(fail)

NextAgg == CreateAggregated \/ SearchAny \/ StatsAny

SpecAgg == Init /\ [][NextAgg]_vars

\* C8: Search returns at most 5 posts, each a stored post that matches q in
\* its title or content, with engagement = likes + number of comments (null
\* for a post whose likes is null, and null sorts last), in non-increasing
\* order of engagement; count is their number; and no match left out has a
\* strictly higher engagement than a post returned.
C8_SearchRanksByEngagement ==
    (resp.op = "search" /\ resp.status = 200) =>
        LET d == resp.data
            q == resp.query
            match == {i \in 1..Len(posts) :
                        RegexMatchI(posts[i].title, q) \/ RegexMatchI(posts[i].content, q)}
            ids == {d[k].id : k \in 1..Len(d)}
            eng(p) == IF p.likes = None THEN None
                      ELSE Some(p.likes[1] + Len(p.comments))
            higher(a, b) == a # None /\ (b = None \/ a[1] > b[1])
        IN  /\ Len(d) <= 5
            /\ Len(d) = IF Cardinality(match) < 5 THEN Cardinality(match) ELSE 5
            /\ resp.count = Len(d)
            /\ Cardinality(ids) = Len(d)
            /\ \A k \in 1..Len(d) :
                  /\ \E i \in match :
                        \A f \in DOMAIN posts[i] : d[k][f] = posts[i][f]
                  /\ d[k].engagement = eng(d[k])
            /\ \A k \in 1..(Len(d) - 1) :
                  ~higher(d[k + 1].engagement, d[k].engagement)
            /\ \A i \in match : posts[i].id \notin ids =>
                  \A k \in 1..Len(d) : ~higher(eng(posts[i]), d[k].engagement)

\* six posts match, the search returns five of them, the first with
\* engagement 6 and the last with engagement 0
C8_Witness ==
    /\ resp.op = "search" /\ resp.status = 200
    /\ Len(resp.data) = 5
    /\ resp.data[1].engagement = Some(6)
    /\ resp.data[5].engagement = Some(0)
    /\ Cardinality({i \in 1..Len(posts) :
                      RegexMatchI(posts[i].title, resp.query)
                      \/ RegexMatchI(posts[i].content, resp.query)}) = 6

\* C9: for a collection that is not empty Stats returns totalPosts = the
\* number of posts, totalLikes = the sum of their likes, avgLikes =
\* totalLikes / totalPosts and publishedCount = the number of published
\* posts; for an empty collection it answers 200 with an empty object.
C9_StatsTotals ==
    (resp.op = "stats" /\ ~resp.storeFailed) =>
        /\ resp.status = 200
        /\ posts = <<>> => (resp.emptyObject /\ resp.data = <<>>)
        /\ posts # <<>> =>
              /\ ~resp.emptyObject /\ Len(resp.data) = 1
              /\ LET st == resp.data[1]
                 IN  /\ st.totalPosts = Len(posts)
                     /\ st.totalLikes = SumLikes(posts)
                     /\ st.publishedCount =
                           Cardinality({i \in 1..Len(posts) : posts[i].published})
                     /\ st.avgLikes # None
                     /\ st.avgLikes[1].num * st.totalPosts
                           = st.totalLikes * st.avgLikes[1].den

====
